---- MODULE Spec2Model ----
(***************************************************************************)
(* Model of the patient-admission scheduling engine of HAS.py:             *)
(* HospitalScheduler (heap of waiting patients, tie-breaking counter,      *)
(* served log, dated JSON snapshot), the AnalyticsSystem severity counts   *)
(* it notifies, and the AppointmentPage handlers that drive both.          *)
(***************************************************************************)
EXTENDS Integers, Sequences, FiniteSets, TLC

\* ------------------------------------------------------------------ bounds
MaxAdds == 3        \* add_patient calls explored in one behaviour of Spec
MaxQueue == 5       \* add_patient calls explored in one behaviour of QueueSpec
MaxFaults == 1      \* failed file writes explored in one behaviour
MaxDay == 1         \* calendar days after the first one
MaxUsec == 1        \* sub-second part of datetime.now()

\* ------------------------------------------------------------------ inputs
NameOrder == <<"A", "B", "C">>          \* names, in Python's string order
DeptOrder == <<"ER", "ICU">>            \* departments, in Python's string order
\* The (name, severity, department) forms submitted: two severities, a tie on
\* the lower one, two departments.
Bookings == {<<"A", 5, "ER">>, <<"B", 3, "ER">>, <<"C", 3, "ICU">>}
MinSeverity == 1
MaxSeverity == 10
SeverityRange == MinSeverity..MaxSeverity

VARIABLES
    pq,                \* HospitalScheduler.pq: the heap array
    counter,           \* HospitalScheduler.counter
    served_patients,   \* HospitalScheduler.served_patients
    file,              \* contents of appointments_today.json
    severity_counts,   \* AnalyticsSystem.severity_counts
    analytics_file,    \* contents of analytics_data.json
    today,             \* date.today()
    ret,               \* value returned by the last call
    issued,            \* history: the add_patient calls of this process today, in call order
    notified,          \* history: serve_patient_severity calls, per add_patient call
    faults,            \* history: failed file writes so far
    pc,                \* <<0>> between calls; inside serve_patient <<k, item>>:
                       \* k of its steps are done and item is the entry popped
    callers,           \* for each of two callers that take no lock: the method
                       \* it is in, the statements done and its local values
    departments,       \* DepartmentManager.departments: name -> capacity, current_patients
    dept_file          \* contents of departments.json

vars == <<pq, counter, served_patients, file, severity_counts, analytics_file,
          today, ret, issued, notified, faults, pc, callers, departments, dept_file>>

\* ------------------------------------------------------- tuple comparison
\* A waiting entry is the tuple (severity, counter, name, department); its
\* fifth component is a history tag (the ordinal of the add_patient call that
\* created it) which no comparison and no output of the program reads.
Rank(order, s) == CHOOSE i \in 1..Len(order) : order[i] = s

\* Mutant: the higher severity number sorts first.
TupleLess_urgent(a, b) ==
    \/ a[1] > b[1]
    \/ a[1] = b[1] /\ a[2] < b[2]

\* Python's a < b on the 4-tuples: lexicographic, left to right.
TupleLess(a, b) ==
    \/ a[1] < b[1]
    \/ a[1] = b[1] /\ a[2] < b[2]
    \/ a[1] = b[1] /\ a[2] = b[2] /\ Rank(NameOrder, a[3]) < Rank(NameOrder, b[3])
    \/ a[1] = b[1] /\ a[2] = b[2] /\ a[3] = b[3]
         /\ Rank(DeptOrder, a[4]) < Rank(DeptOrder, b[4])

\* ------------------------------------------------------------------ heapq
RECURSIVE SiftDownLoop(_, _, _, _)
\* heapq._siftdown: move newitem up from pos towards startpos.
SiftDownLoop(heap, startpos, pos, newitem) ==
    IF pos > startpos
    THEN LET parentpos == (pos - 1) \div 2
             parent == heap[parentpos + 1]
         IN  IF TupleLess(newitem, parent)
             THEN SiftDownLoop([heap EXCEPT ![pos + 1] = parent], startpos, parentpos, newitem)
             ELSE [heap EXCEPT ![pos + 1] = newitem]
    ELSE [heap EXCEPT ![pos + 1] = newitem]

\* heapq._siftdown leaving the array as it found it.
siftdown_none(heap, startpos, pos) == heap

siftdown(heap, startpos, pos) == SiftDownLoop(heap, startpos, pos, heap[pos + 1])

RECURSIVE SiftUpLoop(_, _, _, _)
\* heapq._siftup: bubble the smaller child up until a leaf, then sift newitem down.
SiftUpLoop(heap, startpos, pos, newitem) ==
    LET endpos == Len(heap)
        childpos == 2 * pos + 1
    IN  IF childpos < endpos
        THEN LET rightpos == childpos + 1
                 c == IF rightpos < endpos /\ ~TupleLess(heap[childpos + 1], heap[rightpos + 1])
                      THEN rightpos ELSE childpos
             IN  SiftUpLoop([heap EXCEPT ![pos + 1] = heap[c + 1]], startpos, c, newitem)
        ELSE siftdown([heap EXCEPT ![pos + 1] = newitem], startpos, pos)

\* heapq._siftup leaving the array as it found it.
siftup_none(heap, pos) == heap

siftup(heap, pos) == SiftUpLoop(heap, pos, pos, heap[pos + 1])

heappush(heap, item) == siftdown(Append(heap, item), 0, Len(heap))

\* Mutant: list.pop() in place of heapq.heappop.
heappop_last(heap) ==
    [item |-> heap[Len(heap)], heap |-> SubSeq(heap, 1, Len(heap) - 1)]

\* heapq.heappop on a non-empty heap: the returned item and the heap left.
heappop(heap) ==
    LET lastelt == heap[Len(heap)]
        rest == SubSeq(heap, 1, Len(heap) - 1)
    IN  IF rest # <<>>
        THEN [item |-> heap[1], heap |-> siftup([rest EXCEPT ![1] = lastelt], 0)]
        ELSE [item |-> lastelt, heap |-> rest]

\* get_waiting_list: sorted(self.pq), a new list; stable insertion by TupleLess.
RECURSIVE sorted(_)
sorted(heap) ==
    IF heap = <<>> THEN <<>>
    ELSE LET init == sorted(SubSeq(heap, 1, Len(heap) - 1))
             x == heap[Len(heap)]
             k == Cardinality({i \in 1..Len(init) : ~TupleLess(x, init[i])})
         IN  SubSeq(init, 1, k) \o <<x>> \o SubSeq(init, k + 1, Len(init))

get_waiting_list == sorted(pq)

\* get_served_list returning the newest record first.
get_served_list_reversed ==
    [i \in 1..Len(served_patients) |-> served_patients[Len(served_patients) + 1 - i]]

get_served_list == served_patients

\* ------------------------------------------------------------ persistence
\* A timestamp is datetime.now(): the part '%Y-%m-%d %H:%M:%S' prints (here the
\* day) and the microseconds it does not print.
now(usec) == [date |-> today, usec |-> usec]

strftime(t) == [date |-> t.date]

strptime(text) == [date |-> text.date, usec |-> 0]

\* Text that is not in the format: strptime raises ValueError on it.
Garbled == [garbled |-> TRUE]

Parses(text) == "date" \in DOMAIN text

\* A file that is missing, truncated or otherwise not parseable JSON.
Unreadable == [exists |-> FALSE]

\* The JSON document save_appointments dumps on day d.
Snapshot(d, waiting, cnt, served) ==
    [exists |-> TRUE,
     date |-> d,
     waiting |-> waiting,
     counter |-> cnt,
     served |-> [i \in 1..Len(served) |->
                    <<served[i][1], served[i][2], served[i][3], strftime(served[i][4])>>]]

\* A write of document doc over old: done, refused before the file is opened,
\* or broken off after the file was truncated.
WriteOutcomes == {"ok", "unwritten", "truncated"}

Cost(outcome) == IF outcome = "ok" THEN 0 ELSE 1

Written(old, doc, outcome) ==
    CASE outcome = "ok" -> doc
      [] outcome = "unwritten" -> old
      [] outcome = "truncated" -> Unreadable

\* save_appointments keeping the date of the snapshot it replaces.
save_appointments_keepdate(old, d, waiting, cnt, served, outcome) ==
    Written(old, Snapshot(IF old.exists THEN old.date ELSE d, waiting, cnt, served),
            outcome)

save_appointments(old, d, waiting, cnt, served, outcome) ==
    Written(old, Snapshot(d, waiting, cnt, served), outcome)

\* Mutant: the counter is not restored from the snapshot.
\* load_appointments returning after a timestamp failed to parse, with the
\* waiting list and the counter it had already read.
load_appointments_partial(f, d) ==
    IF f.exists /\ f.date = d
    THEN IF \A i \in 1..Len(f.served) : Parses(f.served[i][4])
         THEN [pq |-> f.waiting,
               counter |-> f.counter,
               served |-> [i \in 1..Len(f.served) |->
                             <<f.served[i][1], f.served[i][2], f.served[i][3],
                               strptime(f.served[i][4])>>],
               reset |-> FALSE]
         ELSE [pq |-> f.waiting, counter |-> f.counter, served |-> <<>>, reset |-> FALSE]
    ELSE [pq |-> <<>>, counter |-> 0, served |-> <<>>, reset |-> TRUE]

\* load_appointments without the comparison of the stored date with today.
load_appointments_anyday(f, d) ==
    IF f.exists /\ \A i \in 1..Len(f.served) : Parses(f.served[i][4])
    THEN [pq |-> f.waiting,
          counter |-> f.counter,
          served |-> [i \in 1..Len(f.served) |->
                        <<f.served[i][1], f.served[i][2], f.served[i][3],
                          strptime(f.served[i][4])>>],
          reset |-> FALSE]
    ELSE [pq |-> <<>>, counter |-> 0, served |-> <<>>, reset |-> TRUE]

\* load_appointments that reads the served rows back in reverse.
load_appointments_reversed(f, d) ==
    IF f.exists /\ f.date = d /\ \A i \in 1..Len(f.served) : Parses(f.served[i][4])
    THEN [pq |-> f.waiting,
          counter |-> f.counter,
          served |-> [i \in 1..Len(f.served) |->
                        <<f.served[Len(f.served) + 1 - i][1],
                          f.served[Len(f.served) + 1 - i][2],
                          f.served[Len(f.served) + 1 - i][3],
                          strptime(f.served[Len(f.served) + 1 - i][4])>>],
          reset |-> FALSE]
    ELSE [pq |-> <<>>, counter |-> 0, served |-> <<>>, reset |-> TRUE]

load_appointments_nocounter(f, d) ==
    IF f.exists /\ f.date = d /\ \A i \in 1..Len(f.served) : Parses(f.served[i][4])
    THEN [pq |-> f.waiting,
          counter |-> 0,
          served |-> [i \in 1..Len(f.served) |->
                        <<f.served[i][1], f.served[i][2], f.served[i][3],
                          strptime(f.served[i][4])>>],
          reset |-> FALSE]
    ELSE [pq |-> <<>>, counter |-> 0, served |-> <<>>, reset |-> TRUE]

\* load_appointments: the state it leaves in memory, and whether it fell
\* through to the reset that ends with save_appointments.  A file that cannot
\* be opened or parsed, a stored date other than today and a timestamp that
\* strptime rejects (after pq and counter were assigned) all end in the reset.
load_appointments(f, d) ==
    IF f.exists /\ f.date = d /\ \A i \in 1..Len(f.served) : Parses(f.served[i][4])
    THEN [pq |-> f.waiting,
          counter |-> f.counter,
          served |-> [i \in 1..Len(f.served) |->
                        <<f.served[i][1], f.served[i][2], f.served[i][3],
                          strptime(f.served[i][4])>>],
          reset |-> FALSE]
    ELSE [pq |-> <<>>, counter |-> 0, served |-> <<>>, reset |-> TRUE]

\* -------------------------------------------------------------- analytics
ZeroCounts == [i \in SeverityRange |-> 0]

AnalyticsDoc(counts) == [exists |-> TRUE, counts |-> counts]

load_analytics(f) == IF f.exists THEN f.counts ELSE ZeroCounts

\* add_patient_visit counting the visit twice.
add_patient_visit_double(counts, severity) ==
    IF MinSeverity <= severity /\ severity <= MaxSeverity
    THEN [counts EXCEPT ![severity] = @ + 2]
    ELSE counts

\* add_patient_visit: the counts it leaves (it saves only when it changed them).
add_patient_visit(counts, severity) ==
    IF MinSeverity <= severity /\ severity <= MaxSeverity
    THEN [counts EXCEPT ![severity] = @ + 1]
    ELSE counts

\* serve_patient_severity without the test for a count above zero.
serve_patient_severity_unclamped(counts, severity) ==
    IF MinSeverity <= severity /\ severity <= MaxSeverity
    THEN [counts EXCEPT ![severity] = @ - 1]
    ELSE counts

\* serve_patient_severity: the counts it leaves (it saves only when it changed them).
serve_patient_severity(counts, severity) ==
    IF MinSeverity <= severity /\ severity <= MaxSeverity /\ counts[severity] > 0
    THEN [counts EXCEPT ![severity] = @ - 1]
    ELSE counts

\* ------------------------------------------------------------ departments
\* DepartmentManager.__init__: the dictionary before load_departments.
DefaultDepartments ==
    [n \in {"Emergency", "Cardiology", "Pediatrics", "Surgery", "General Medicine",
            "Addiction control"} |->
        [capacity |-> CASE n = "Emergency" -> 50
                        [] n = "Cardiology" -> 30
                        [] n = "Pediatrics" -> 25
                        [] n = "Surgery" -> 20
                        [] n = "General Medicine" -> 40
                        [] n = "Addiction control" -> 100,
         current_patients |-> 0]]

\* Department(name, capacity)
Department(capacity) == [capacity |-> capacity, current_patients |-> 0]

\* The JSON document save_departments dumps.
DeptDoc(depts) == [exists |-> TRUE, data |-> depts]

\* load_departments: the file's departments, or the defaults when the file
\* is missing or json.load raises.
load_departments(f) == IF f.exists THEN f.data ELSE DefaultDepartments

save_departments(old, depts, outcome) == Written(old, DeptDoc(depts), outcome)

\* raise ValueError(message)
Raised(message) ==
    /\ ret' = <<"ValueError", message>>
    /\ UNCHANGED <<departments, dept_file, faults>>

\* self.save_departments() at the end of a manager method, which returns None.
Saved_departments(o) ==
    /\ dept_file' = save_departments(dept_file, departments', o)
    /\ faults' = faults + Cost(o)
    /\ ret' = <<"None">>

add_department(name, capacity, o) ==
    IF name \in DOMAIN departments
    THEN Raised("Department already exists")
    ELSE /\ departments' = [n \in DOMAIN departments \cup {name} |->
                               IF n = name THEN Department(capacity) ELSE departments[n]]
         /\ Saved_departments(o)

delete_department(name, o) ==
    IF name \notin DOMAIN departments
    THEN Raised("Department does not exist")
    ELSE IF departments[name].current_patients > 0
    THEN Raised("Cannot delete department with active patients")
    ELSE /\ departments' = [n \in DOMAIN departments \ {name} |-> departments[n]]
         /\ Saved_departments(o)

\* update_department(name, capacity) with a capacity given.
update_department(name, capacity, o) ==
    IF name \notin DOMAIN departments
    THEN Raised("Department does not exist")
    ELSE IF capacity < departments[name].current_patients
    THEN Raised("New capacity cannot be less than current patients")
    ELSE /\ departments' = [departments EXCEPT ![name].capacity = capacity]
         /\ Saved_departments(o)

\* admit_patient without the capacity test.
admit_patient_unchecked(department_name, o) ==
    IF department_name \notin DOMAIN departments
    THEN Raised("Department does not exist")
    ELSE /\ departments' = [departments EXCEPT ![department_name].current_patients = @ + 1]
         /\ Saved_departments(o)

admit_patient(department_name, o) ==
    IF department_name \notin DOMAIN departments
    THEN Raised("Department does not exist")
    ELSE IF departments[department_name].current_patients
                >= departments[department_name].capacity
    THEN Raised("Department is at full capacity")
    ELSE /\ departments' = [departments EXCEPT ![department_name].current_patients = @ + 1]
         /\ Saved_departments(o)

discharge_patient(department_name, o) ==
    IF department_name \notin DOMAIN departments
    THEN Raised("Department does not exist")
    ELSE IF departments[department_name].current_patients <= 0
    THEN Raised("No patients to discharge")
    ELSE /\ departments' = [departments EXCEPT ![department_name].current_patients = @ - 1]
         /\ Saved_departments(o)

\* str.isdigit and int on the text of an entry field, a sequence of characters.
DigitValue(c) ==
    CASE c = "0" -> 0 [] c = "1" -> 1 [] c = "2" -> 2 [] c = "3" -> 3 [] c = "4" -> 4
      [] c = "5" -> 5 [] c = "6" -> 6 [] c = "7" -> 7 [] c = "8" -> 8 [] c = "9" -> 9
      [] OTHER -> -1

isdigit(text) == text # <<>> /\ \A i \in 1..Len(text) : DigitValue(text[i]) >= 0

RECURSIVE int(_)
int(text) ==
    IF text = <<>> THEN 0
    ELSE 10 * int(SubSeq(text, 1, Len(text) - 1)) + DigitValue(text[Len(text)])

\* A caller that is in no method of the scheduler.
Away == [op |-> "none", at |-> 0, item |-> <<>>, seen |-> 0]

\* ---------------------------------------------------------------- history
\* The tag of the next entry: the ordinal of the add_patient call creating it.
Tag == Len(notified) + 1

\* The calls logged so far no longer belong to the current run of
\* add_patient and serve_patient calls.
Closed(log) == [i \in 1..Len(log) |-> [log[i] EXCEPT !.run = FALSE]]

\* ------------------------------------------------------------------- Init
\* First start on day 0 with neither file on disk: load_appointments resets
\* and saves, load_analytics falls back to zero counts and writes nothing.
Started(o) ==
    /\ pq = <<>>
    /\ counter = 0
    /\ served_patients = <<>>
    /\ file = save_appointments(Unreadable, 0, <<>>, 0, <<>>, o)
    /\ faults = Cost(o)
    /\ severity_counts = ZeroCounts
    /\ analytics_file = Unreadable
    /\ today = 0
    /\ ret = <<"None">>
    /\ issued = <<>>
    /\ notified = <<>>
    /\ pc = <<0>>
    /\ callers = <<Away, Away>>
    /\ departments = load_departments(Unreadable)
    /\ dept_file = Unreadable

Init == \E o \in WriteOutcomes : Cost(o) <= MaxFaults /\ Started(o)

\* --------------------------------------------------------------- handlers
\* Mutant: the counter is not incremented.
add_patient_noinc(name, severity, department, o) ==
    /\ pq' = heappush(pq, <<severity, counter, name, department, Tag>>)
    /\ counter' = counter
    /\ file' = save_appointments(file, today, pq', counter', served_patients, o)
    /\ issued' = Append(issued, [seq |-> counter, run |-> TRUE])
    /\ notified' = Append(notified, 0)
    /\ ret' = <<"None">>
    /\ UNCHANGED <<served_patients, today>>

\* Mutant: the queue length is used as the sequence.
add_patient_len(name, severity, department, o) ==
    /\ pq' = heappush(pq, <<severity, Len(pq), name, department, Tag>>)
    /\ counter' = counter + 1
    /\ file' = save_appointments(file, today, pq', counter', served_patients, o)
    /\ issued' = Append(issued, [seq |-> Len(pq), run |-> TRUE])
    /\ notified' = Append(notified, 0)
    /\ ret' = <<"None">>
    /\ UNCHANGED <<served_patients, today>>

\* Mutant: the counter is advanced by two.
add_patient_skip(name, severity, department, o) ==
    /\ pq' = heappush(pq, <<severity, counter, name, department, Tag>>)
    /\ counter' = counter + 2
    /\ file' = save_appointments(file, today, pq', counter', served_patients, o)
    /\ issued' = Append(issued, [seq |-> counter, run |-> TRUE])
    /\ notified' = Append(notified, 0)
    /\ ret' = <<"None">>
    /\ UNCHANGED <<served_patients, today>>

\* Mutant: the snapshot is not saved.
\* add_patient that takes the entry back when the write failed.
add_patient_rollback(name, severity, department, o) ==
    /\ pq' = IF o = "ok" THEN heappush(pq, <<severity, counter, name, department, Tag>>)
             ELSE pq
    /\ counter' = IF o = "ok" THEN counter + 1 ELSE counter
    /\ file' = IF o = "ok"
               THEN save_appointments(file, today, pq', counter', served_patients, o)
               ELSE Written(file, file, o)
    /\ issued' = IF o = "ok" THEN Append(issued, [seq |-> counter, run |-> TRUE])
                 ELSE issued
    /\ notified' = IF o = "ok" THEN Append(notified, 0) ELSE notified
    /\ ret' = <<"None">>
    /\ UNCHANGED <<served_patients, today>>

add_patient_nosave(name, severity, department, o) ==
    /\ pq' = heappush(pq, <<severity, counter, name, department, Tag>>)
    /\ counter' = counter + 1
    /\ file' = file
    /\ issued' = Append(issued, [seq |-> counter, run |-> TRUE])
    /\ notified' = Append(notified, 0)
    /\ ret' = <<"None">>
    /\ UNCHANGED <<served_patients, today>>

\* HospitalScheduler.add_patient(name, severity, department); o is the outcome
\* of the write in save_appointments.
add_patient(name, severity, department, o) ==
    /\ pq' = heappush(pq, <<severity, counter, name, department, Tag>>)
    /\ counter' = counter + 1
    /\ file' = save_appointments(file, today, pq', counter', served_patients, o)
    /\ issued' = Append(issued, [seq |-> counter, run |-> TRUE])
    /\ notified' = Append(notified, 0)
    /\ ret' = <<"None">>
    /\ UNCHANGED <<served_patients, today>>

\* Mutant: the served record is inserted at the head of the log.
serve_patient_front(usec, oa, o) ==
    IF pq # <<>>
    THEN LET popped == heappop(pq)
             severity == popped.item[1]
             name == popped.item[3]
             department == popped.item[4]
             counts == serve_patient_severity(severity_counts, severity)
         IN  /\ pq' = popped.heap
             /\ served_patients' = <<<<name, severity, department, now(usec)>>>>
                                       \o served_patients
             /\ severity_counts' = counts
             /\ analytics_file' = IF counts = severity_counts THEN analytics_file
                                  ELSE Written(analytics_file, AnalyticsDoc(counts), oa)
             /\ notified' = [notified EXCEPT ![popped.item[5]] = @ + 1]
             /\ file' = save_appointments(file, today, pq', counter, served_patients', o)
             /\ faults' = faults + (IF counts = severity_counts THEN 0 ELSE Cost(oa)) + Cost(o)
             /\ ret' = <<"Serving", name, severity, department>>
             /\ UNCHANGED <<counter, today, issued>>
    ELSE /\ ret' = <<"No patients in queue.">>
         /\ UNCHANGED <<pq, counter, served_patients, file, severity_counts,
                        analytics_file, today, issued, notified, faults>>

\* Mutant: heappop is called without the test for an empty queue.
serve_patient_unguarded(usec, oa, o) ==
    IF pq # <<>>
    THEN LET popped == heappop(pq)
             severity == popped.item[1]
             name == popped.item[3]
             department == popped.item[4]
             counts == serve_patient_severity(severity_counts, severity)
         IN  /\ pq' = popped.heap
             /\ served_patients' = Append(served_patients,
                                          <<name, severity, department, now(usec)>>)
             /\ severity_counts' = counts
             /\ analytics_file' = IF counts = severity_counts THEN analytics_file
                                  ELSE Written(analytics_file, AnalyticsDoc(counts), oa)
             /\ notified' = [notified EXCEPT ![popped.item[5]] = @ + 1]
             /\ file' = save_appointments(file, today, pq', counter, served_patients', o)
             /\ faults' = faults + (IF counts = severity_counts THEN 0 ELSE Cost(oa)) + Cost(o)
             /\ ret' = <<"Serving", name, severity, department>>
             /\ UNCHANGED <<counter, today, issued>>
    ELSE /\ ret' = <<"IndexError">>
         /\ UNCHANGED <<pq, counter, served_patients, file, severity_counts,
                        analytics_file, today, issued, notified, faults>>

\* HospitalScheduler.serve_patient() with self.analytics attached, at clock
\* reading now(usec); oa and o are the outcomes of the writes in
\* save_analytics and save_appointments.
serve_patient(usec, oa, o) ==
    IF pq # <<>>
    THEN LET popped == heappop(pq)
             severity == popped.item[1]
             name == popped.item[3]
             department == popped.item[4]
             counts == serve_patient_severity(severity_counts, severity)
         IN  /\ pq' = popped.heap
             /\ served_patients' = Append(served_patients,
                                          <<name, severity, department, now(usec)>>)
             /\ severity_counts' = counts
             /\ analytics_file' = IF counts = severity_counts THEN analytics_file
                                  ELSE Written(analytics_file, AnalyticsDoc(counts), oa)
             /\ notified' = [notified EXCEPT ![popped.item[5]] = @ + 1]
             /\ file' = save_appointments(file, today, pq', counter, served_patients', o)
             /\ faults' = faults + (IF counts = severity_counts THEN 0 ELSE Cost(oa)) + Cost(o)
             /\ ret' = <<"Serving", name, severity, department>>
             /\ UNCHANGED <<counter, today, issued>>
    ELSE /\ ret' = <<"No patients in queue.">>
         /\ UNCHANGED <<pq, counter, served_patients, file, severity_counts,
                        analytics_file, today, issued, notified, faults>>

\* add_appointment without the search of the waiting list.
add_appointment_nocheck(name, severity, department, o, oa) ==
    IF severity \notin SeverityRange
    THEN /\ ret' = <<"None">>
         /\ UNCHANGED <<pq, counter, served_patients, file, severity_counts,
                        analytics_file, today, issued, notified, faults>>
    ELSE /\ add_patient(name, severity, department, o)
         /\ severity_counts' = add_patient_visit(severity_counts, severity)
         /\ analytics_file' = Written(analytics_file, AnalyticsDoc(severity_counts'), oa)
         /\ faults' = faults + Cost(o) + Cost(oa)

\* AppointmentPage.add_appointment with the form fields filled in.
add_appointment(name, severity, department, o, oa) ==
    IF severity \notin SeverityRange
    THEN /\ ret' = <<"None">>
         /\ UNCHANGED <<pq, counter, served_patients, file, severity_counts,
                        analytics_file, today, issued, notified, faults>>
    ELSE IF \E i \in 1..Len(get_waiting_list) :
                get_waiting_list[i][3] = name /\ get_waiting_list[i][4] = department
    THEN /\ ret' = <<"None">>
         /\ UNCHANGED <<pq, counter, served_patients, file, severity_counts,
                        analytics_file, today, issued, notified, faults>>
    ELSE /\ add_patient(name, severity, department, o)
         /\ severity_counts' = add_patient_visit(severity_counts, severity)
         /\ analytics_file' = Written(analytics_file, AnalyticsDoc(severity_counts'), oa)
         /\ faults' = faults + Cost(o) + Cost(oa)

\* clear_appointment_history that leaves the served log where it was.
clear_appointment_history_keeplog(o, oa) ==
    /\ pq' = <<>>
    /\ served_patients' = served_patients
    /\ counter' = 0
    /\ file' = save_appointments(file, today, pq', counter', served_patients', o)
    /\ severity_counts' = ZeroCounts
    /\ analytics_file' = Written(analytics_file, AnalyticsDoc(severity_counts'), oa)
    /\ faults' = faults + Cost(o) + Cost(oa)
    /\ issued' = Closed(issued)
    /\ ret' = <<"None">>
    /\ UNCHANGED <<today, notified>>

\* clear_appointment_history that leaves the counter where it was.
clear_appointment_history_keepcounter(o, oa) ==
    /\ pq' = <<>>
    /\ served_patients' = <<>>
    /\ counter' = counter
    /\ file' = save_appointments(file, today, pq', counter', served_patients', o)
    /\ severity_counts' = ZeroCounts
    /\ analytics_file' = Written(analytics_file, AnalyticsDoc(severity_counts'), oa)
    /\ faults' = faults + Cost(o) + Cost(oa)
    /\ issued' = Closed(issued)
    /\ ret' = <<"None">>
    /\ UNCHANGED <<today, notified>>

\* AppointmentPage.clear_appointment_history()
clear_appointment_history(o, oa) ==
    /\ pq' = <<>>
    /\ served_patients' = <<>>
    /\ counter' = 0
    /\ file' = save_appointments(file, today, pq', counter', served_patients', o)
    /\ severity_counts' = ZeroCounts
    /\ analytics_file' = Written(analytics_file, AnalyticsDoc(severity_counts'), oa)
    /\ faults' = faults + Cost(o) + Cost(oa)
    /\ issued' = Closed(issued)
    /\ ret' = <<"None">>
    /\ UNCHANGED <<today, notified>>

\* HospitalManagementApp.__init__ in a new process: HospitalScheduler() loads
\* the snapshot (and saves when it reset), AnalyticsSystem() loads the counts.
construct(o) ==
    LET loaded == load_appointments(file, today)
    IN  /\ pq' = loaded.pq
        /\ counter' = loaded.counter
        /\ served_patients' = loaded.served
        /\ file' = IF loaded.reset
                   THEN save_appointments(file, today, pq', counter', served_patients', o)
                   ELSE file
        /\ faults' = faults + (IF loaded.reset THEN Cost(o) ELSE 0)
        /\ severity_counts' = load_analytics(analytics_file)
        /\ issued' = <<>>
        /\ ret' = <<"None">>
        /\ UNCHANGED <<analytics_file, today, notified>>

\* ---------------------------------------------------------------- actions
\* The outcomes a write may have when k writes have failed in this step.
Outcomes(k) == {o \in WriteOutcomes : faults + k + Cost(o) <= MaxFaults}

AddPatient ==
    /\ Len(notified) < MaxAdds
    /\ \E b \in Bookings, o \in Outcomes(0) :
         /\ add_patient(b[1], b[2], b[3], o)
         /\ faults' = faults + Cost(o)
         /\ UNCHANGED <<severity_counts, analytics_file, pc, callers, departments, dept_file>>

AddAppointment ==
    /\ Len(notified) < MaxAdds
    /\ \E b \in Bookings, o \in Outcomes(0) :
         \E oa \in Outcomes(Cost(o)) :
            add_appointment(b[1], b[2], b[3], o, oa) /\ UNCHANGED <<pc, callers, departments, dept_file>>

ServePatient ==
    \E usec \in 0..MaxUsec, o \in Outcomes(0) :
        \E oa \in Outcomes(Cost(o)) : serve_patient(usec, oa, o) /\ UNCHANGED <<pc, callers, departments, dept_file>>

ResetDay ==
    \E o \in Outcomes(0) : \E oa \in Outcomes(Cost(o)) :
        clear_appointment_history(o, oa) /\ UNCHANGED <<pc, callers, departments, dept_file>>

Restart == \E o \in Outcomes(0) : construct(o) /\ UNCHANGED <<pc, callers, departments, dept_file>>

\* Midnight passes while the process keeps running.
Tick ==
    /\ today < MaxDay
    /\ today' = today + 1
    /\ issued' = <<>>
    /\ UNCHANGED <<pq, counter, served_patients, file, severity_counts,
                   analytics_file, ret, notified, faults, pc, callers, departments, dept_file>>

Next ==
    \/ AddPatient
    \/ AddAppointment
    \/ ServePatient
    \/ ResetDay
    \/ Restart
    \/ Tick

Spec == Init /\ [][Next]_vars

\* The scheduler alone on one day with a disk that takes every write:
\* longer queues, so that every branch of the heap operations is taken.
\* A caller of get_waiting_list that sorts the heap array itself.
list_waiting_inplace ==
    /\ pq' = sorted(pq)
    /\ ret' = <<"Waiting", pq'>>
    /\ UNCHANGED <<counter, served_patients, file, severity_counts, analytics_file,
                   today, issued, notified, faults>>

\* A call of HospitalScheduler.get_waiting_list(): the list it returns.
list_waiting ==
    /\ ret' = <<"Waiting", get_waiting_list>>
    /\ UNCHANGED <<pq, counter, served_patients, file, severity_counts, analytics_file,
                   today, issued, notified, faults>>

QueueInit == Started("ok")

QueueAdd ==
    /\ Len(notified) < MaxQueue
    /\ \E b \in Bookings :
         /\ add_patient(b[1], b[2], b[3], "ok")
         /\ UNCHANGED <<severity_counts, analytics_file, faults, pc, callers, departments, dept_file>>

QueueServe == serve_patient(0, "ok", "ok") /\ UNCHANGED <<pc, callers, departments, dept_file>>

QueueReset == clear_appointment_history("ok", "ok") /\ UNCHANGED <<pc, callers, departments, dept_file>>

QueueList == list_waiting /\ UNCHANGED <<pc, callers, departments, dept_file>>

QueueNext == QueueAdd \/ QueueServe \/ QueueReset \/ QueueList

QueueSpec == QueueInit /\ [][QueueNext]_vars

\* ----------------------------------------------------------------- claims
Range(s) == {s[i] : i \in 1..Len(s)}

\* (severity, sequence) of a before that of b, lexicographically.
KeyLess(a, b) == a[1] < b[1] \/ (a[1] = b[1] /\ a[2] < b[2])

\* The step is a serve_patient call that served someone.
Served == pq # <<>> /\ ServePatient

\* The step is a serve_patient call that found nobody waiting.
FoundEmpty == pq = <<>> /\ ServePatient

\* The step is an add_patient call.
Added == Len(notified') = Len(notified) + 1

\* The step removes exactly the entry e from the waiting set.
Removes(e) == e \in Range(pq) /\ Range(pq') = Range(pq) \ {e} /\ Len(pq') = Len(pq) - 1

\* C1: a serve_patient call on a non-empty waiting set removes exactly the
\* waiting entry whose (severity, sequence) pair is smaller than that of every
\* other waiting entry, and nothing else.
C1_ServeRemovesMinimum ==
    [][Served =>
         \E e \in Range(pq) :
            /\ \A f \in Range(pq) \ {e} : KeyLess(e, f)
            /\ Removes(e)
            /\ ret' = <<"Serving", e[3], e[1], e[4]>>]_vars

\* A sequence-0 entry of severity 5 still waits among three or more after an
\* entry of severity 3 was served from a heap of four or more.
C1_Witness ==
    /\ ret[1] = "Serving" /\ ret[3] = 3
    /\ Len(pq) >= 3
    /\ \E i \in 1..Len(pq) : pq[i][1] = 5 /\ pq[i][2] = 0

\* The strip of a waiting entry that get_waiting_list shows: the program's tuple.
Shown(e) == <<e[1], e[2], e[3], e[4]>>

\* C2: of two entries waiting at the same time the one of lower severity is
\* served first, and of two of equal severity the one added earlier; after
\* adding A/5, B/3, C/3 to an empty scheduler get_waiting_list is
\* (3,1,B,ER), (3,2,C,ICU), (5,0,A,ER).
C2_ServiceOrder ==
    /\ [][Served =>
            \E e \in Range(pq) :
               /\ Removes(e)
               /\ \A f \in Range(pq') :
                    e[1] < f[1] \/ (e[1] = f[1] /\ e[5] < f[5])]_vars
    /\ [](Range(pq) = {<<5, 0, "A", "ER", 1>>, <<3, 1, "B", "ER", 2>>, <<3, 2, "C", "ICU", 3>>}
            => [i \in 1..Len(pq) |-> Shown(get_waiting_list[i])]
                 = << <<3, 1, "B", "ER">>, <<3, 2, "C", "ICU">>, <<5, 0, "A", "ER">> >>)

\* A/5, B/3, C/3 were added in this order and B, then C were served.
C2_Witness ==
    /\ pq = << <<5, 0, "A", "ER", 1>> >>
    /\ Len(served_patients) = 2
    /\ served_patients[1][1] = "B" /\ served_patients[2][1] = "C"
    /\ notified = <<0, 1, 1>>
    /\ ret = <<"Serving", "C", 3, "ICU">>

\* The add_patient calls made since the last clear_appointment_history, among
\* those of this process today.
Run == {i \in 1..Len(issued) : issued[i].run}

SetMax(S) == CHOOSE x \in S : \A y \in S : y <= x

\* C3: over a run of add_patient calls with serve_patient calls anywhere in
\* between, the sequence values assigned are strictly increasing in call order
\* (hence pairwise distinct).
C3_SequencesIncrease ==
    \A i \in Run : \A j \in Run : i < j => issued[i].seq < issued[j].seq

\* Three calls in one run, with a serve before the last of them.
C3_Witness ==
    /\ Cardinality(Run) >= 3
    /\ served_patients # <<>>
    /\ Len(pq) + Len(served_patients) = counter
    /\ pq # <<>> /\ notified[Len(notified)] = 0 /\ notified[1] = 1

\* C4: no two waiting entries have the same (severity, sequence) key.
C4_KeysDistinct ==
    \A i \in 1..Len(pq) : \A j \in 1..Len(pq) :
        i # j => <<pq[i][1], pq[i][2]>> # <<pq[j][1], pq[j][2]>>

\* Two entries of equal severity wait right after a restart loaded them.
C4_Witness ==
    /\ Len(pq) >= 2
    /\ pq[1][1] = pq[2][1]
    /\ issued = <<>> /\ today = 0

\* C5 as stated: no sequence value is assigned twice by the add_patient calls
\* of one day, whatever add_patient, serve_patient and
\* clear_appointment_history calls there are.
C5_NeverReused ==
    \A i \in 1..Len(issued) : \A j \in 1..Len(issued) :
        i # j => issued[i].seq # issued[j].seq

\* C5 amended: no sequence value is assigned twice between two
\* clear_appointment_history calls.
C5_NotReusedBetweenResets ==
    \A i \in Run : \A j \in Run : i # j => issued[i].seq # issued[j].seq

\* After a clear_appointment_history a value assigned before it is assigned
\* again, while the calls since then got distinct values.
C5_Witness ==
    /\ Cardinality(Run) >= 2
    /\ \E i \in 1..Len(issued) : \E j \in Run :
          ~issued[i].run /\ issued[i].seq = issued[j].seq

\* C6 as stated: counter is 1 + the largest sequence of any entry inserted
\* today, and never decreases within a day.
C6_CounterIsMaxPlusOne ==
    /\ [](issued # <<>> => counter = 1 + SetMax({issued[i].seq : i \in 1..Len(issued)}))
    /\ [][today' = today => counter' >= counter]_vars

\* C6 amended: counter is 1 + the largest sequence of any entry inserted since
\* the last clear_appointment_history, and only clear_appointment_history and
\* the load of a restart lower it.
C6_CounterIsRunMaxPlusOne ==
    /\ [](Run # {} => counter = 1 + SetMax({issued[i].seq : i \in Run}))
    /\ [][counter' < counter => ResetDay \/ Restart]_vars

\* Entries were inserted before and after a clear_appointment_history, and an
\* earlier one had a sequence the counter has not reached again.
C6_Witness ==
    /\ Run # {}
    /\ \E i \in 1..Len(issued) : ~issued[i].run /\ issued[i].seq >= counter

\* C7: add_patient inserts exactly one waiting entry (severity, c, name,
\* department) with c the counter before the call, sets counter to c + 1,
\* leaves the entries already waiting and the served log as they were, and
\* saves the whole new state (the file holds it unless the write failed).
C7_AddPatientEffect ==
    [][Added =>
         \E b \in Bookings :
            LET e == <<b[2], counter, b[1], b[3], Len(notified')>>
            IN  /\ e \notin Range(pq)
                /\ Range(pq') = Range(pq) \cup {e}
                /\ Len(pq') = Len(pq) + 1
                /\ counter' = counter + 1
                /\ served_patients' = served_patients
                /\ \/ file' = Snapshot(today, pq', counter', served_patients')
                   \/ faults' > faults /\ (file' = file \/ file' = Unreadable)]_vars

\* The newest entry waits behind an older one, someone was served before, and
\* the file holds exactly the state in memory.
C7_Witness ==
    /\ Len(pq) >= 2
    /\ \E i \in 1..Len(pq) : pq[i][5] = Len(notified) /\ pq[i][2] = counter - 1
    /\ served_patients # <<>>
    /\ file = Snapshot(today, pq, counter, served_patients)

\* C8: a serve_patient call on a non-empty waiting set removes one waiting
\* entry, appends one record with that entry's name, severity and department
\* at the end of the served log, leaves counter alone and returns that entry's
\* name, severity and department.
C8_ServeMovesOneEntry ==
    [][Served =>
         \E e \in Range(pq) :
            /\ Removes(e)
            /\ Len(served_patients') = Len(served_patients) + 1
            /\ SubSeq(served_patients', 1, Len(served_patients)) = served_patients
            /\ LET r == served_patients'[Len(served_patients')]
               IN  r[1] = e[3] /\ r[2] = e[1] /\ r[3] = e[4]
            /\ counter' = counter
            /\ ret' = <<"Serving", e[3], e[1], e[4]>>]_vars

\* A second patient was just served while another still waits.
C8_Witness ==
    /\ ret[1] = "Serving"
    /\ Len(served_patients) >= 2
    /\ pq # <<>>
    /\ served_patients[Len(served_patients)][1] = ret[2]
    /\ served_patients[1][1] # ret[2]

\* C9: a serve_patient call on an empty waiting set returns "No patients in
\* queue." and leaves waiting set, served log, counter, analytics counts and
\* both files as they were.
C9_EmptyServeChangesNothing ==
    [][FoundEmpty =>
         /\ ret' = <<"No patients in queue.">>
         /\ UNCHANGED <<pq, counter, served_patients, file, severity_counts,
                        analytics_file, notified>>]_vars

\* Nobody waits, the empty result was returned, and a count is above zero.
C9_Witness ==
    /\ ret = <<"No patients in queue.">>
    /\ pq = <<>>
    /\ severity_counts[3] > 0

RECURSIVE SumSeq(_)
SumSeq(q) == IF q = <<>> THEN 0 ELSE q[Len(q)] + SumSeq(SubSeq(q, 1, Len(q) - 1))

\* C10: serve_patient_severity is called at most once in a serve_patient call,
\* not at all when nobody waits, and at most once for the same inserted entry,
\* restarts included.
C10_DecrementAtMostOnce ==
    /\ [](\A t \in 1..Len(notified) : notified[t] <= 1)
    /\ [][/\ SumSeq(notified') <= SumSeq(notified) + 1
          /\ FoundEmpty => notified' = notified]_vars


\* ================================================= the analytics on its own
\* AnalyticsSystem called directly, with severities inside and outside 1..10.
MaxCount == 3

Severities == {0, 1, 3, 10, 11}

AnalyticsInit == Started("ok")

\* save_analytics after a handler left counts in memory.
save_analytics(counts, oa) ==
    /\ analytics_file' = Written(analytics_file, AnalyticsDoc(counts), oa)
    /\ faults' = faults + Cost(oa)

VisitOn(severity) ==
    /\ severity \in SeverityRange => severity_counts[severity] < MaxCount
    /\ severity_counts' = add_patient_visit(severity_counts, severity)
    /\ IF MinSeverity <= severity /\ severity <= MaxSeverity
       THEN \E oa \in Outcomes(0) : save_analytics(severity_counts', oa)
       ELSE UNCHANGED <<analytics_file, faults>>
    /\ UNCHANGED <<pq, counter, served_patients, file, today, ret, issued, notified, pc, callers, departments, dept_file>>

ServedOn(severity) ==
    /\ severity_counts' = serve_patient_severity(severity_counts, severity)
    /\ IF severity_counts' # severity_counts
       THEN \E oa \in Outcomes(0) : save_analytics(severity_counts', oa)
       ELSE UNCHANGED <<analytics_file, faults>>
    /\ UNCHANGED <<pq, counter, served_patients, file, today, ret, issued, notified, pc, callers, departments, dept_file>>

AnalyticsVisit == \E severity \in Severities : VisitOn(severity)

AnalyticsServed == \E severity \in Severities : ServedOn(severity)

AnalyticsClear ==
    /\ severity_counts' = ZeroCounts
    /\ \E oa \in Outcomes(0) : save_analytics(severity_counts', oa)
    /\ UNCHANGED <<pq, counter, served_patients, file, today, ret, issued, notified, pc, callers, departments, dept_file>>

AnalyticsLoad ==
    /\ severity_counts' = load_analytics(analytics_file)
    /\ UNCHANGED <<pq, counter, served_patients, file, analytics_file, today, ret,
                   issued, notified, faults, pc, callers, departments, dept_file>>

AnalyticsNext == AnalyticsVisit \/ AnalyticsServed \/ AnalyticsClear \/ AnalyticsLoad

AnalyticsSpec == AnalyticsInit /\ [][AnalyticsNext]_vars

\* C11: no severity count is ever negative, whatever the order and number of
\* add_patient_visit, serve_patient_severity and clear calls; and
\* serve_patient_severity for a severity whose count is zero, or for a
\* severity outside 1..10, leaves every count as it was.
C11_CountsNeverNegative ==
    /\ [](\A i \in SeverityRange : severity_counts[i] >= 0)
    /\ [][\A severity \in Severities :
            (ServedOn(severity) /\ (severity \notin SeverityRange
                                       \/ severity_counts[severity] = 0))
                => severity_counts' = severity_counts]_vars

\* A count was taken to 1 and on to 0 (the file, whose last write failed,
\* still says 1) while another count stands at the bound.
C11_Witness ==
    /\ severity_counts[3] = 0
    /\ analytics_file.exists /\ analytics_file.counts[3] = 1
    /\ severity_counts[1] = MaxCount

\* ==================================================== loading the snapshot
\* The full environment with fewer bookings, and with the appointment file
\* edited from outside the program so that a stored timestamp no longer parses.
MaxStored == 2

LoadAdd ==
    /\ Len(notified) < MaxStored
    /\ \E b \in Bookings, o \in Outcomes(0) :
         \E oa \in Outcomes(Cost(o)) :
            add_appointment(b[1], b[2], b[3], o, oa) /\ UNCHANGED <<pc, callers, departments, dept_file>>

Tamper ==
    /\ file.exists
    /\ \E i \in 1..Len(file.served) :
         /\ Parses(file.served[i][4])
         /\ file' = [file EXCEPT !.served[i][4] = Garbled]
    /\ UNCHANGED <<pq, counter, served_patients, severity_counts, analytics_file,
                   today, ret, issued, notified, faults, pc, callers, departments, dept_file>>

LoadNext == LoadAdd \/ ServePatient \/ ResetDay \/ Restart \/ Tick \/ Tamper

LoadSpec == Init /\ [][LoadNext]_vars

\* The log with every time cut to whole seconds.
Truncated(log) ==
    [i \in 1..Len(log) |->
        <<log[i][1], log[i][2], log[i][3], [date |-> log[i][4].date, usec |-> 0]>>]

\* The last save succeeded: the file holds the snapshot of the state in memory.
Saved == file = Snapshot(today, pq, counter, served_patients)

\* The load ended in the reset: memory is empty and the empty snapshot of
\* today was written, unless that write failed.
LoadedEmpty ==
    /\ pq' = <<>> /\ served_patients' = <<>> /\ counter' = 0
    /\ \/ file' = Snapshot(today, <<>>, 0, <<>>) /\ faults' = faults
       \/ faults' = faults + 1 /\ (file' = file \/ file' = Unreadable)

\* C12 (as stated): loading a successfully saved state on the same day gives
\* back the waiting entries in their order, the counter and the served
\* records with their times.
C12_RoundTrip ==
    [][Restart /\ Saved
        => pq' = pq /\ counter' = counter /\ served_patients' = served_patients]_vars

\* C12 (amended): loading a successfully saved state on the same day gives
\* back the waiting entries in their order, the counter and the served
\* records in their order, each time cut to whole seconds.
C12_RoundTripToTheSecond ==
    [][Restart /\ Saved
        => pq' = pq /\ counter' = counter
           /\ served_patients' = Truncated(served_patients)]_vars

\* After a restart on the day of the bookings, with no write ever failed:
\* entries waiting, records served, and the file equal to what was loaded.
C12_Witness ==
    /\ issued = <<>> /\ today = 0 /\ faults = 0
    /\ pq # <<>> /\ Len(served_patients) = 1 /\ Len(notified) = 2
    /\ Saved

\* C13: a load that finds a snapshot stored on another day leaves the waiting
\* list and the served log empty and the counter 0, and saves the empty
\* snapshot dated today before it returns.
C13_Rollover ==
    [][Restart /\ file.exists /\ file.date # today => LoadedEmpty]_vars

\* A booking of day 0 that day 1 no longer knows: its analytics count is
\* still 1, the snapshot is the empty one of day 1, and no write ever failed.
C13_Witness ==
    /\ today = 1 /\ faults = 0
    /\ pq = <<>> /\ served_patients = <<>> /\ counter = 0
    /\ file = Snapshot(1, <<>>, 0, <<>>)
    /\ severity_counts[5] = 1

\* The file cannot be opened or parsed, or it is of today and one of its
\* timestamps does not parse.
Unloadable ==
    \/ ~file.exists
    \/ file.date = today /\ \E i \in 1..Len(file.served) : ~Parses(file.served[i][4])

\* C14: a load always returns, and when the file is missing or unreadable,
\* or is of today with a timestamp that does not parse (found after the
\* waiting list and the counter were read), it leaves the all-empty state
\* and saves it at once; nothing of the file stays in memory.
C14_LoadFallsBackToEmpty ==
    /\ [](ENABLED Restart)
    /\ [][Restart /\ Unloadable => LoadedEmpty]_vars

\* On day 0 with no write ever failed, a booking still counted by the
\* analytics is gone from memory and from the file: the snapshot holding it
\* had a served time that did not parse.
C14_Witness ==
    /\ today = 0 /\ faults = 0
    /\ pq = <<>> /\ served_patients = <<>> /\ counter = 0
    /\ file = Snapshot(0, <<>>, 0, <<>>)
    /\ severity_counts[5] = 1

C16_Lifecycle ==
    /\ [](\A i \in 1..Len(notified) : notified[i] <= 1)
    /\ [](\A e \in Range(pq) : notified[e[5]] = 0)
    /\ [][\A e \in Range(pq') :
            e \in Range(pq) \/ (Added /\ e[5] = Len(notified'))]_vars

IsPrefix(a, b) == Len(a) <= Len(b) /\ SubSeq(b, 1, Len(a)) = a

\* C17 (as stated): in every step that is not a reset the served log before
\* the step is a prefix of the served log after it.
C17_AppendOnly ==
    [][ResetDay \/ IsPrefix(served_patients, served_patients')]_vars

\* C17 (amended): in every step that is neither a reset nor the load at
\* construction the served log before the step is a prefix of the log after
\* it, and get_served_list after a serve is get_served_list before it with
\* the record of the patient just served at the end.
C17_AppendOnlyWhileRunning ==
    /\ [][ResetDay \/ Restart \/ IsPrefix(served_patients, served_patients')]_vars
    /\ [][Served =>
            /\ Len(get_served_list') = Len(get_served_list) + 1
            /\ SubSeq(get_served_list', 1, Len(get_served_list)) = get_served_list
            /\ LET r == get_served_list'[Len(get_served_list')]
               IN  <<"Serving", r[1], r[2], r[3]>> = ret']_vars

\* Three patients were served one after the other, the last one just now.
C17_Witness ==
    /\ Len(get_served_list) = 3
    /\ ret = <<"Serving", get_served_list[3][1], get_served_list[3][2],
               get_served_list[3][3]>>
    /\ get_served_list[1][1] # get_served_list[2][1]
    /\ get_served_list[2][1] # get_served_list[3][1]

\* C18: get_waiting_list returns every waiting entry exactly once, in
\* ascending order of (severity, sequence), and changes nothing: the heap
\* array with the order of its elements, the counter, the served log and the
\* file are as before, so the next serve_patient takes the same entry and
\* leaves the same heap as it would have without the call.
C18_ListWaitingReadOnly ==
    [][QueueList =>
         LET shown == ret'[2]
         IN  /\ Len(shown) = Len(pq)
             /\ Range(shown) = Range(pq)
             /\ \A i, j \in 1..Len(shown) : i < j => KeyLess(shown[i], shown[j])
             /\ pq' = pq
             /\ UNCHANGED <<counter, served_patients, file>>
             /\ pq # <<>> => heappop(pq') = heappop(pq)]_vars

\* The list just returned has four entries and is in another order than the
\* heap array, which still holds them.
C18_Witness ==
    /\ ret[1] = "Waiting"
    /\ Len(ret[2]) = 4
    /\ Range(ret[2]) = Range(pq)
    /\ ret[2] # pq
    /\ served_patients # <<>>

\* C19: clear_appointment_history, from any state, leaves the waiting set and
\* the served log empty and the counter 0 and then saves: the file holds the
\* empty snapshot dated today unless the write failed.
C19_ResetEmptiesAndSaves ==
    [][ResetDay =>
         /\ pq' = <<>> /\ served_patients' = <<>> /\ counter' = 0
         /\ \/ file' = Snapshot(today, <<>>, 0, <<>>)
            \/ faults' > faults /\ (file' = file \/ file' = Unreadable)]_vars

\* Entries were added and one of them served in this run, and a reset has
\* closed the run: memory and the file are empty, the counts are zero.
C19_Witness ==
    /\ Len(issued) >= 2 /\ Run = {}
    /\ SumSeq(notified) >= 1
    /\ pq = <<>> /\ served_patients = <<>> /\ counter = 0
    /\ file = Snapshot(today, <<>>, 0, <<>>)
    /\ severity_counts = ZeroCounts

\* ========================================= serve_patient statement by statement
\* The statements of serve_patient after the test of self.pq, in the order in
\* which the method executes them.
ServeSteps_hookfirst == <<"pop", "hook", "append", "save">>

ServeSteps == <<"pop", "append", "hook", "save">>

\* serve_patient is inside its body and step is the statement it executes next.
At(step) == pc[1] > 0 /\ ServeSteps[pc[1] + 1] = step

\* pc after one more statement of the body (the return follows the last).
Advance == IF pc[1] + 1 = Len(ServeSteps) THEN <<0>> ELSE <<pc[1] + 1, pc[2]>>

\* Calls are serialized: a handler starts only when no call is in progress.
StepAdd == pc = <<0>> /\ AddAppointment

StepReset == pc = <<0>> /\ ResetDay

\* if self.pq: ... else: return "No patients in queue."
ServeEmpty ==
    /\ pc = <<0>> /\ pq = <<>>
    /\ ret' = <<"No patients in queue.">>
    /\ UNCHANGED <<pq, counter, served_patients, file, severity_counts, analytics_file,
                   today, issued, notified, faults, pc, callers, departments, dept_file>>

\* severity, _, name, department = heapq.heappop(self.pq)
ServeBegin ==
    /\ pc = <<0>> /\ pq # <<>> /\ ServeSteps[1] = "pop"
    /\ pq' = heappop(pq).heap
    /\ pc' = <<1, heappop(pq).item>>
    /\ UNCHANGED <<counter, served_patients, file, severity_counts, analytics_file,
                   today, ret, issued, notified, faults, callers, departments, dept_file>>

\* timestamp = datetime.now(); self.served_patients.append(...)
ServeAppend ==
    /\ At("append")
    /\ \E usec \in 0..MaxUsec :
         served_patients' = Append(served_patients,
                                   <<pc[2][3], pc[2][1], pc[2][4], now(usec)>>)
    /\ pc' = Advance
    /\ UNCHANGED <<pq, counter, file, severity_counts, analytics_file, today, ret,
                   issued, notified, faults, callers, departments, dept_file>>

\* self.analytics.serve_patient_severity(severity)
ServeNotify ==
    /\ At("hook")
    /\ severity_counts' = serve_patient_severity(severity_counts, pc[2][1])
    /\ IF severity_counts' # severity_counts
       THEN \E oa \in Outcomes(0) : save_analytics(severity_counts', oa)
       ELSE UNCHANGED <<analytics_file, faults>>
    /\ notified' = [notified EXCEPT ![pc[2][5]] = @ + 1]
    /\ pc' = Advance
    /\ UNCHANGED <<pq, counter, served_patients, file, today, ret, issued, callers, departments, dept_file>>

\* self.save_appointments(); return f"Serving: ..."
ServeSaveWith(o) ==
    /\ At("save")
    /\ file' = save_appointments(file, today, pq, counter, served_patients, o)
    /\ faults' = faults + Cost(o)
    /\ ret' = <<"Serving", pc[2][3], pc[2][1], pc[2][4]>>
    /\ pc' = Advance
    /\ UNCHANGED <<pq, counter, served_patients, severity_counts, analytics_file,
                   today, issued, notified, callers, departments, dept_file>>

ServeSave == \E o \in Outcomes(0) : ServeSaveWith(o)

StepNext ==
    StepAdd \/ StepReset \/ ServeEmpty \/ ServeBegin \/ ServeAppend \/ ServeNotify
        \/ ServeSave

StepSpec == Init /\ [][StepNext]_vars

\* The step completes add_patient, serve_patient or clear_appointment_history
\* with the write of its save succeeding.
CompletedAndSaved ==
    \/ \E b \in Bookings : add_patient(b[1], b[2], b[3], "ok")
    \/ ServeSaveWith("ok")
    \/ \E oa \in WriteOutcomes : clear_appointment_history("ok", oa)

\* C20: with calls made one after the other, every add_patient, serve_patient
\* and clear_appointment_history call whose save succeeds leaves in the file
\* the snapshot of the whole state in memory, dated today, whatever earlier
\* writes did; and inside serve_patient the analytics hook runs when the
\* record of the popped entry is already the last of the served log and the
\* file has not been written, and the save follows the hook.
C20_SaveHoldsWholeState ==
    /\ [][CompletedAndSaved
            => file' = Snapshot(today, pq', counter', served_patients')]_vars
    /\ [][ServeNotify =>
            /\ served_patients # <<>>
            /\ LET r == served_patients[Len(served_patients)]
               IN  r[1] = pc[2][3] /\ r[2] = pc[2][1] /\ r[3] = pc[2][4]
            /\ pc[2] \notin Range(pq)
            /\ UNCHANGED <<served_patients, file>>
            /\ pc'[1] > 0 /\ ServeSteps[pc'[1] + 1] = "save"]_vars
    /\ [][ServeSave => UNCHANGED <<pq, counter, served_patients, severity_counts>>]_vars

\* A second patient was served with every write of that call done, after one
\* earlier write had failed: the file holds all of memory.
C20_Witness ==
    /\ pc = <<0>> /\ ret[1] = "Serving"
    /\ faults = 1
    /\ Len(served_patients) = 2 /\ pq # <<>>
    /\ file = Snapshot(today, pq, counter, served_patients)
    /\ analytics_file = AnalyticsDoc(severity_counts)

\* ==================================================== callers without a lock
\* Two callers run add_patient and serve_patient with no lock between them:
\* the interpreter may switch from one to the other between any two of the
\* statements below.  heappush and heappop are single calls into the C heapq
\* module and happen at once; self.counter += 1 is a load and a store.
MaxRaceAdds == 2

MaxSerial == 3

Callers == {1, 2}

\* The state the statements work on.
Machine ==
    [pq |-> pq, counter |-> counter, served_patients |-> served_patients,
     file |-> file, severity_counts |-> severity_counts,
     analytics_file |-> analytics_file, issued |-> issued, notified |-> notified,
     callers |-> callers, ret |-> ret]

\* Caller k enters add_patient(name, severity, department).
EnterAdd(m, k, b) ==
    [m EXCEPT !.callers[k] = [op |-> "add_patient", at |-> 0, item |-> b, seen |-> 0]]

\* Caller k enters serve_patient().
EnterServe(m, k) ==
    [m EXCEPT !.callers[k] = [op |-> "serve_patient", at |-> 0, item |-> <<>>, seen |-> 0]]

\* add_patient building its tuple with the length of the heap as sequence.
add_read_len(m, k) ==
    LET b == m.callers[k].item
    IN  [m EXCEPT !.callers[k].item = <<b[2], Len(m.pq), b[1], b[3], Len(m.notified) + 1>>,
                  !.callers[k].at = 1,
                  !.issued = Append(@, [seq |-> Len(m.pq), run |-> TRUE]),
                  !.notified = Append(@, 0)]

\* add_patient building its tuple with a sequence value of 0.
add_read_zero(m, k) ==
    LET b == m.callers[k].item
    IN  [m EXCEPT !.callers[k].item = <<b[2], 0, b[1], b[3], Len(m.notified) + 1>>,
                  !.callers[k].at = 1,
                  !.issued = Append(@, [seq |-> 0, run |-> TRUE]),
                  !.notified = Append(@, 0)]

\* (severity, self.counter, name, department): the tuple is built, reading
\* the counter.
add_read(m, k) ==
    LET b == m.callers[k].item
    IN  [m EXCEPT !.callers[k].item = <<b[2], m.counter, b[1], b[3], Len(m.notified) + 1>>,
                  !.callers[k].at = 1,
                  !.issued = Append(@, [seq |-> m.counter, run |-> TRUE]),
                  !.notified = Append(@, 0)]

\* heapq.heappush(self.pq, ...)
add_push(m, k) ==
    [m EXCEPT !.pq = heappush(@, m.callers[k].item), !.callers[k].at = 2]

\* self.counter += 1: the load
add_load(m, k) ==
    [m EXCEPT !.callers[k].seen = m.counter, !.callers[k].at = 3]

\* The store of self.counter += 1 writing back the value loaded.
add_store_same(m, k) ==
    [m EXCEPT !.counter = m.callers[k].seen, !.callers[k].at = 4]

\* self.counter += 1: the store
add_store(m, k) ==
    [m EXCEPT !.counter = m.callers[k].seen + 1, !.callers[k].at = 4]

\* self.save_appointments() and the return of add_patient
add_save(m, k) ==
    [m EXCEPT !.file = Snapshot(today, m.pq, m.counter, m.served_patients),
              !.ret = <<"None">>,
              !.callers[k] = Away]

\* if self.pq: ... else: return "No patients in queue."
serve_test(m, k) ==
    IF m.pq # <<>>
    THEN [m EXCEPT !.callers[k].at = 1]
    ELSE [m EXCEPT !.ret = <<"No patients in queue.">>, !.callers[k] = Away]

\* heapq.heappop(self.pq), which raises IndexError when the other caller has
\* emptied the heap since the test.
serve_pop(m, k) ==
    IF m.pq # <<>>
    THEN [m EXCEPT !.pq = heappop(m.pq).heap,
                   !.callers[k].item = heappop(m.pq).item,
                   !.callers[k].at = 2]
    ELSE [m EXCEPT !.ret = <<"IndexError">>, !.callers[k] = Away]

\* timestamp = datetime.now(); self.served_patients.append(...)
serve_append(m, k) ==
    LET e == m.callers[k].item
    IN  [m EXCEPT !.served_patients = Append(@, <<e[3], e[1], e[4], now(0)>>),
                  !.callers[k].at = 3]

\* self.analytics.serve_patient_severity(severity)
serve_hook(m, k) ==
    LET e == m.callers[k].item
        counts == serve_patient_severity(m.severity_counts, e[1])
    IN  [m EXCEPT !.severity_counts = counts,
                  !.analytics_file = IF counts = m.severity_counts THEN @
                                     ELSE AnalyticsDoc(counts),
                  !.notified[e[5]] = @ + 1,
                  !.callers[k].at = 4]

\* self.save_appointments() and the return of serve_patient
serve_save(m, k) ==
    LET e == m.callers[k].item
    IN  [m EXCEPT !.file = Snapshot(today, m.pq, m.counter, m.served_patients),
                  !.ret = <<"Serving", e[3], e[1], e[4]>>,
                  !.callers[k] = Away]

\* The statement caller k executes next.
Statement(m, k) ==
    LET c == m.callers[k]
    IN  CASE c.op = "add_patient" /\ c.at = 0 -> add_read(m, k)
          [] c.op = "add_patient" /\ c.at = 1 -> add_push(m, k)
          [] c.op = "add_patient" /\ c.at = 2 -> add_load(m, k)
          [] c.op = "add_patient" /\ c.at = 3 -> add_store(m, k)
          [] c.op = "add_patient" /\ c.at = 4 -> add_save(m, k)
          [] c.op = "serve_patient" /\ c.at = 0 -> serve_test(m, k)
          [] c.op = "serve_patient" /\ c.at = 1 -> serve_pop(m, k)
          [] c.op = "serve_patient" /\ c.at = 2 -> serve_append(m, k)
          [] c.op = "serve_patient" /\ c.at = 3 -> serve_hook(m, k)
          [] c.op = "serve_patient" /\ c.at = 4 -> serve_save(m, k)

\* The step leaves the machine m.
Install(m) ==
    /\ pq' = m.pq /\ counter' = m.counter /\ served_patients' = m.served_patients
    /\ file' = m.file /\ severity_counts' = m.severity_counts
    /\ analytics_file' = m.analytics_file
    /\ issued' = m.issued /\ notified' = m.notified
    /\ callers' = m.callers /\ ret' = m.ret
    /\ UNCHANGED <<today, faults, pc, departments, dept_file>>

\* The add_patient calls entered so far.
Entered ==
    Len(notified)
        + Cardinality({k \in Callers : callers[k].op = "add_patient" /\ callers[k].at = 0})

RaceEnterAdd ==
    /\ Entered < MaxRaceAdds
    /\ \E k \in Callers, b \in Bookings :
         callers[k] = Away /\ Install(EnterAdd(Machine, k, <<b[1], b[2], b[3]>>))

RaceEnterServe ==
    \E k \in Callers : callers[k] = Away /\ Install(EnterServe(Machine, k))

\* Caller k stands before statement number at + 1 of method op.
Before(k, op, at) == callers[k].op = op /\ callers[k].at = at

\* Caller k executes the statement it stands before.
Execute(k) == Install(Statement(Machine, k))

RaceAddRead == \E k \in Callers : Before(k, "add_patient", 0) /\ Execute(k)

RaceAddPush == \E k \in Callers : Before(k, "add_patient", 1) /\ Execute(k)

RaceAddLoad == \E k \in Callers : Before(k, "add_patient", 2) /\ Execute(k)

RaceAddStore == \E k \in Callers : Before(k, "add_patient", 3) /\ Execute(k)

RaceAddSave == \E k \in Callers : Before(k, "add_patient", 4) /\ Execute(k)

RaceServeTest == \E k \in Callers : Before(k, "serve_patient", 0) /\ Execute(k)

RaceServePop == \E k \in Callers : Before(k, "serve_patient", 1) /\ Execute(k)

RaceServeAppend == \E k \in Callers : Before(k, "serve_patient", 2) /\ Execute(k)

RaceServeHook == \E k \in Callers : Before(k, "serve_patient", 3) /\ Execute(k)

RaceServeSave == \E k \in Callers : Before(k, "serve_patient", 4) /\ Execute(k)

RaceNext ==
    \/ RaceEnterAdd \/ RaceEnterServe
    \/ RaceAddRead \/ RaceAddPush \/ RaceAddLoad \/ RaceAddStore \/ RaceAddSave
    \/ RaceServeTest \/ RaceServePop \/ RaceServeAppend \/ RaceServeHook
    \/ RaceServeSave

RaceInit == Started("ok")

RaceSpec == RaceInit /\ [][RaceNext]_vars

\* Every machine the callers can reach from those of S, switching between
\* them after any statement.
RECURSIVE Interleavings(_)
Interleavings(S) ==
    LET N == S \cup {Statement(mk[1], mk[2]) :
                       mk \in {x \in S \X Callers : x[1].callers[x[2]] # Away}}
    IN  IF N = S THEN S ELSE Interleavings(N)

\* Caller k runs the method it is in to its return, alone.
RECURSIVE Complete(_, _)
Complete(m, k) == IF m.callers[k] = Away THEN m ELSE Complete(Statement(m, k), k)

\* The machines after at most n calls made one after the other from those of S.
RECURSIVE SerialRuns(_, _)
SerialRuns(S, n) ==
    IF n = 0 THEN S
    ELSE SerialRuns(S \cup {Complete(EnterAdd(m, 1, b), 1) : m \in S, b \in Bookings}
                      \cup {Complete(EnterServe(m, 1), 1) : m \in S},
                    n - 1)

\* Two of the sequence values given out are equal.
Duplicate(log) == \E i, j \in 1..Len(log) : i < j /\ log[i].seq = log[j].seq

\* Nothing was called yet.
Quiet == callers = <<Away, Away>> /\ notified = <<>>

\* One add_patient and one serve_patient entered together after calls made
\* one after the other.
AddWithServe ==
    {EnterServe(EnterAdd(m, 1, b), 2) :
        m \in SerialRuns({Machine}, MaxSerial), b \in Bookings}

\* C21 (as stated): when nothing has been called yet there are calls made one
\* after the other and then an interleaving of the statements of one
\* add_patient and one serve_patient after which two entries have been given
\* the same sequence value.
C21_AddServeAssignsDuplicate ==
    Quiet => \E m \in Interleavings(AddWithServe) : Duplicate(m.issued)

\* C21 (amended): no interleaving of one add_patient with one serve_patient
\* gives two entries the same sequence value: a value is given a second time
\* only when add_patient builds its tuple while the other caller is inside
\* add_patient too, between building its tuple and storing the counter.
C21_DuplicateNeedsTwoAdds ==
    /\ [](Quiet => \A m \in Interleavings(AddWithServe) : ~Duplicate(m.issued))
    /\ [][(Duplicate(issued') /\ ~Duplicate(issued))
            => \E k \in Callers :
                 /\ Before(k, "add_patient", 0) /\ Execute(k)
                 /\ \E j \in Callers \ {k} :
                      callers[j].op = "add_patient" /\ callers[j].at \in 1..3]_vars

\* add_patient has pushed its entry and not yet stored the counter while
\* serve_patient has popped an entry and not yet appended it, and all
\* sequence values given out differ.
C21_Witness ==
    /\ \E k \in Callers :
         /\ callers[k].op = "add_patient" /\ callers[k].at = 3
         /\ \E j \in Callers : callers[j].op = "serve_patient" /\ callers[j].at = 2
    /\ Len(issued) = 2 /\ ~Duplicate(issued)

\* The snapshot f holds a waiting entry whose sequence value is not below
\* the counter it holds.
StaleCounter(f) == f.exists /\ \E e \in Range(f.waiting) : e[2] >= f.counter

\* The snapshot in the file was written while a serve_patient call held an
\* entry it had popped and not yet appended: the file has that entry neither
\* among the waiting nor among the served.
Lost(m) ==
    \E k \in Callers :
        /\ m.callers[k].op = "serve_patient" /\ m.callers[k].at = 2
        /\ m.file = Snapshot(today, m.pq, m.counter, m.served_patients)

\* Both callers are in no method and someone waits.
Settled == callers = <<Away, Away>> /\ pq # <<>>

\* One add_patient and one serve_patient entered together now.
AddWithServeNow == {EnterServe(EnterAdd(Machine, 1, b), 2) : b \in Bookings}

\* C22: whenever someone waits and no call is in progress, the statements of
\* one add_patient and one serve_patient can interleave so that a snapshot is
\* written holding a waiting entry whose sequence is not below the counter
\* written with it, and so that a snapshot is written holding the popped
\* entry neither as waiting nor as served; calls made one after the other
\* from the start write no snapshot of the first kind.
C22_InterleavedSnapshotInconsistent ==
    /\ [](Settled => \E m \in Interleavings(AddWithServeNow) : StaleCounter(m.file))
    /\ [](Settled => \E m \in Interleavings(AddWithServeNow) : Lost(m))
    /\ [](Quiet => \A m \in SerialRuns({Machine}, MaxSerial) : ~StaleCounter(m.file))

\* serve_patient returned after saving while add_patient had pushed its entry
\* and not stored the counter: the file holds an entry of sequence 1 with
\* counter 1.
C22_Witness ==
    /\ StaleCounter(file)
    /\ file.counter = 1 /\ Len(file.served) = 1
    /\ ret[1] = "Serving"
    /\ \E k \in Callers : callers[k].op = "add_patient" /\ callers[k].at \in 2..3

\* Two add_patient calls entered together when nothing was called yet.
TwoAdds ==
    {EnterAdd(EnterAdd(Machine, 1, a), 2, b) : a, b \in Bookings}

\* Two waiting entries of m carry the same sequence value.
DuplicateWaiting(m) ==
    \E i, j \in 1..Len(m.pq) : i < j /\ m.pq[i][2] = m.pq[j][2]

\* C23: two add_patient calls that take no lock can both build their tuple
\* from the same counter value before either stores the counter, and return
\* with two waiting entries of the same sequence value and the counter
\* advanced by two; calls made one after the other never leave two waiting
\* entries of the same sequence value.
C23_TwoAddsShareSequence ==
    /\ [](Quiet => \E m \in Interleavings(TwoAdds) :
                      /\ m.callers = <<Away, Away>>
                      /\ DuplicateWaiting(m)
                      /\ m.counter = counter + 2)
    /\ [](Quiet => \A m \in SerialRuns({Machine}, MaxSerial) : ~DuplicateWaiting(m))

\* Both add_patient calls have returned: two entries of sequence 0 wait, the
\* counter is 2 and the file holds this state.
C23_Witness ==
    /\ callers = <<Away, Away>>
    /\ Len(pq) = 2 /\ pq[1][2] = 0 /\ pq[2][2] = 0
    /\ counter = 2
    /\ file = Snapshot(today, pq, counter, served_patients)

\* C24: with calls made one after the other, in every state reached by
\* add_patient, serve_patient, clear_appointment_history and the load at
\* construction of a file that save_appointments wrote (or failed to write),
\* the counter is the number of waiting entries plus the number of served
\* records.
C24_Conservation == counter = Len(pq) + Len(served_patients)

\* Loaded by a restart on the day of the bookings: one entry waits, one
\* record is in the log and the counter is 2.
C24_Witness ==
    /\ issued = <<>> /\ today = 0 /\ Len(notified) >= 2
    /\ counter = 2 /\ Len(pq) = 1 /\ Len(served_patients) = 1

\* C25: a change of date while the program runs resets nothing: waiting
\* entries, served log and counter stay; every snapshot written afterwards
\* carries the date of the day it is written on; and the load at
\* construction, finding the date of today on the file, takes over all its
\* waiting entries, its counter and all its served records without looking
\* at the days they were created on.
C25_DateCheckedOnlyAtLoad ==
    /\ [][Tick => UNCHANGED <<pq, counter, served_patients, file>>]_vars
    /\ [][(file' # file /\ file'.exists) => file'.date = today]_vars
    /\ [][(Restart /\ file.exists /\ file.date = today)
            => /\ pq' = file.waiting
               /\ counter' = file.counter
               /\ Len(served_patients') = Len(file.served)
               /\ \A i \in 1..Len(file.served) :
                    served_patients'[i][4].date = file.served[i][4].date]_vars

\* On day 1 a restart has loaded a record served on day 0 and two waiting
\* entries, one of them added on day 0: the third entry was added after the
\* date changed and its save put the date of day 1 on the file.
C25_Witness ==
    /\ today = 1 /\ issued = <<>>
    /\ Len(notified) = 3 /\ Len(pq) = 2
    /\ Len(served_patients) = 1 /\ served_patients[1][4].date = 0
    /\ file.exists /\ file.date = 1

\* Each severity count is the number of waiting entries of that severity.
CountsMatch ==
    \A v \in SeverityRange :
        severity_counts[v] = Cardinality({i \in 1..Len(pq) : pq[i][1] = v})

\* C26: the counts equal the waiting entries per severity in the cleared
\* state the program starts from, and every booking through add_appointment,
\* every serve_patient and every clear_appointment_history made in a state
\* where they are equal leaves them equal, so they are equal after any
\* sequence of these; add_patient called on the scheduler alone changes no
\* count.
C26_CountsFollowWaiting ==
    /\ CountsMatch
    /\ [][(CountsMatch /\ (AddAppointment \/ ServePatient \/ ResetDay)) => CountsMatch']_vars
    /\ [][AddPatient => UNCHANGED severity_counts]_vars

\* Three bookings and one serve: one entry of severity 3 and one of severity
\* 5 wait and each of the two counts is 1.
C26_Witness ==
    /\ CountsMatch
    /\ Len(pq) = 2 /\ Len(served_patients) = 1
    /\ severity_counts[3] = 1 /\ severity_counts[5] = 1
    /\ ret[1] = "Serving"

\* The entries in the order in which serve_patient calls with no add_patient
\* in between take them from heap.
RECURSIVE DrainOrder(_)
DrainOrder(heap) ==
    IF heap = <<>> THEN <<>>
    ELSE <<heappop(heap).item>> \o DrainOrder(heappop(heap).heap)

\* C27: from a waiting set of n entries, n serve_patient calls with no
\* add_patient in between serve each entry once, in ascending order of
\* (severity, sequence): every serve takes the first entry of that order and
\* leaves the rest of the order as it was, and a serve_patient on the empty
\* set returns the empty result.  An add_patient puts its entry into the
\* order and leaves the order of the others as it was, so an entry is served
\* only when no entry still waiting has a smaller key.
C27_Draining ==
    /\ [](LET d == DrainOrder(pq)
          IN  /\ Len(d) = Len(pq) /\ Range(d) = Range(pq)
              /\ \A i, j \in 1..Len(d) : i < j => KeyLess(d[i], d[j]))
    /\ [](\A i \in 1..Len(notified) : notified[i] <= 1)
    /\ [][Served =>
            LET d == DrainOrder(pq)
            IN  /\ ret' = <<"Serving", d[1][3], d[1][1], d[1][4]>>
                /\ notified'[d[1][5]] = notified[d[1][5]] + 1
                /\ DrainOrder(pq') = Tail(d)]_vars
    /\ [][FoundEmpty => ret' = <<"No patients in queue.">> /\ pq' = <<>>]_vars
    /\ [][Added =>
            LET d == DrainOrder(pq')
            IN  \E k \in 1..Len(d) :
                   /\ d[k][5] = Len(notified')
                   /\ DrainOrder(pq) = SubSeq(d, 1, k - 1) \o SubSeq(d, k + 1, Len(d))]_vars

\* Four entries were served one after the other in ascending severity and a
\* further serve_patient found nobody waiting.
C27_Witness ==
    /\ pq = <<>> /\ ret = <<"No patients in queue.">>
    /\ notified = <<1, 1, 1, 1>>
    /\ Len(served_patients) = 4
    /\ \A i, j \in 1..4 : i < j => served_patients[i][2] <= served_patients[j][2]
    /\ served_patients[1][2] < served_patients[4][2]

\* An entry with this name and department waits.
PairWaits(name, department) ==
    \E i \in 1..Len(pq) : pq[i][3] = name /\ pq[i][4] = department

\* No two waiting entries have the same name and department.
NoPairTwice ==
    \A i, j \in 1..Len(pq) : i < j => ~(pq[i][3] = pq[j][3] /\ pq[i][4] = pq[j][4])

\* C28: add_patient adds an entry with the next sequence value also when an
\* entry of the same name and department waits; add_appointment for a name
\* and department that wait changes neither scheduler nor analytics nor
\* their files, and for a pair that does not wait (served before or not) it
\* inserts the entry and counts it; so bookings, serves and clears made in a
\* state where no pair waits twice leave no pair waiting twice.
C28_DuplicateCheckInBooking ==
    /\ NoPairTwice
    /\ [][\A b \in Bookings :
            (PairWaits(b[1], b[3]) /\ AddPatient
                /\ \E o \in WriteOutcomes : add_patient(b[1], b[2], b[3], o))
                => /\ Len(pq') = Len(pq) + 1
                   /\ <<b[2], counter, b[1], b[3], Len(notified')>> \in Range(pq')
                   /\ ~NoPairTwice']_vars
    /\ [][\A b \in Bookings :
            (AddAppointment
                /\ \E o, oa \in WriteOutcomes : add_appointment(b[1], b[2], b[3], o, oa))
                => IF PairWaits(b[1], b[3])
                   THEN UNCHANGED <<pq, counter, served_patients, file, severity_counts,
                                    analytics_file>>
                   ELSE /\ <<b[2], counter, b[1], b[3], Len(notified')>> \in Range(pq')
                        /\ severity_counts'[b[2]] = severity_counts[b[2]] + 1]_vars
    /\ [][(NoPairTwice /\ (AddAppointment \/ ServePatient \/ ResetDay)) => NoPairTwice']_vars

\* A was served and then booked again through add_appointment (its severity
\* count is 1), and a direct add_patient has put a second entry for A in the
\* same department behind it.
C28_Witness ==
    /\ Len(served_patients) = 1
    /\ served_patients[1][1] = "A" /\ served_patients[1][3] = "ER"
    /\ Len(pq) = 2 /\ \A i \in 1..2 : pq[i][3] = "A" /\ pq[i][4] = "ER"
    /\ severity_counts[5] = 1
    /\ Len(issued) = 3 /\ Run = {1, 2, 3}
    /\ today = 0 /\ faults = 0

\* ------------------------------------------------------- department pages
\* The largest capacity typed into a capacity field.
MaxCapacity == 2

\* The admissions followed in one department.
MaxAdmitted == 3

\* The departments named in calls: a default one and one that is not.
DeptNames == {"Surgery", "Oncology"}

\* The decimal text of n.
RECURSIVE str(_)
str(n) ==
    LET digit == <<"0", "1", "2", "3", "4", "5", "6", "7", "8", "9">>
    IN  IF n < 10 THEN <<digit[n + 1]>>
        ELSE str(n \div 10) \o <<digit[(n % 10) + 1]>>

\* Texts of the capacity fields: numbers, a signed number and nothing.
CapacityEntries == {str(n) : n \in 0..MaxCapacity} \cup {<<>>, <<"-", "1">>}

\* DepartmentManagementPage.add_department: the manager is called with the
\* name and int(capacity) when the name is non-empty and the capacity text
\* consists of digits.
page_add_department(name, capacity, o) ==
    IF name = "" \/ ~isdigit(capacity)
    THEN /\ ret' = <<"Error", "Please enter valid department name and capacity">>
         /\ UNCHANGED <<departments, dept_file, faults>>
    ELSE add_department(name, int(capacity), o)

\* DepartmentManagementPage.update_capacity
update_capacity(dept_name, new_capacity, o) ==
    IF dept_name = ""
    THEN /\ ret' = <<"Error", "Please select a department to update.">>
         /\ UNCHANGED <<departments, dept_file, faults>>
    ELSE IF ~isdigit(new_capacity)
    THEN /\ ret' = <<"Error", "Please enter a valid new capacity.">>
         /\ UNCHANGED <<departments, dept_file, faults>>
    ELSE update_department(dept_name, int(new_capacity), o)

\* The scheduler and the analytics are not touched by the department calls.
SchedulerIdle ==
    UNCHANGED <<pq, counter, served_patients, file, severity_counts, analytics_file,
                today, issued, notified, pc, callers>>

DeptAdd ==
    \E name \in DeptNames \cup {""}, capacity \in CapacityEntries, o \in Outcomes(0) :
        page_add_department(name, capacity, o) /\ SchedulerIdle

DeptUpdate ==
    \E name \in DeptNames \cup {""}, capacity \in CapacityEntries, o \in Outcomes(0) :
        update_capacity(name, capacity, o) /\ SchedulerIdle

DeptDelete ==
    \E name \in DeptNames, o \in Outcomes(0) : delete_department(name, o) /\ SchedulerIdle

DeptAdmit ==
    /\ \A n \in DOMAIN departments : departments[n].current_patients < MaxAdmitted
    /\ \E name \in DeptNames, o \in Outcomes(0) : admit_patient(name, o) /\ SchedulerIdle

DeptDischarge ==
    \E name \in DeptNames, o \in Outcomes(0) : discharge_patient(name, o) /\ SchedulerIdle

\* A new process: DepartmentManager() sets the defaults and loads the file.
DeptRestart ==
    /\ departments' = load_departments(dept_file)
    /\ ret' = <<"None">>
    /\ UNCHANGED <<dept_file, faults>>
    /\ SchedulerIdle

DeptNext ==
    DeptAdd \/ DeptUpdate \/ DeptDelete \/ DeptAdmit \/ DeptDischarge \/ DeptRestart

DeptInit == Started("ok")

DeptSpec == DeptInit /\ [][DeptNext]_vars

\* The manager call of this step raised and changed nothing.
Refused ==
    /\ ret'[1] = "ValueError"
    /\ UNCHANGED <<departments, dept_file>>

Known(n) == n \in DOMAIN departments

IsHeap(h) ==
    \A i \in 0..(Len(h) - 1) : \A c \in {2 * i + 1, 2 * i + 2} :
        c < Len(h) => ~TupleLess(h[c + 1], h[i + 1])

\* The step starts a new process that finds a snapshot of today.
LoadedToday == Restart /\ file.exists /\ file.date = today

\* C30: the waiting array is a binary min-heap in every reachable state; a
\* save that changes the file writes the array as it is in memory, and a
\* restart that finds today's snapshot takes the stored array as it is, so
\* what it loads is a heap whose next heappop yields an entry of least
\* (severity, sequence); every serve removes such an entry.
C30_HeapShape ==
    /\ [] IsHeap(pq)
    /\ [][(file' # file /\ file'.exists) => file'.waiting = pq']_vars
    /\ [][LoadedToday =>
            /\ pq' = file.waiting
            /\ IsHeap(pq')
            /\ pq' # <<>> => \A x \in Range(pq') : ~KeyLess(x, heappop(pq').item)]_vars
    /\ [][Served =>
            \E e \in Range(pq) : Removes(e) /\ \A x \in Range(pq) : ~KeyLess(x, e)]_vars

\* Three entries were added, the process restarted on the same day, and the
\* one serve since then took the entry of least (severity, sequence).
C30_Witness ==
    /\ ret[1] = "Serving"
    /\ issued = <<>> /\ today = 0 /\ faults = 0
    /\ Len(notified) = 3
    /\ Len(pq) = 2 /\ Len(served_patients) = 1
    /\ \A x \in Range(pq) : served_patients[1][2] < x[1]
====
